---- MODULE Spec2Model ----
(***************************************************************************)
(* Model of the retrieval core and chat interface of ragbased-chatbot-fe:  *)
(*   core/text_processor.py  TextCleaner, TextChunker                      *)
(*   core/embeddings.py      VectorStore, EmbeddingManager                 *)
(*   core/retriever.py       RetrievalResult, Retriever, RAGPipeline       *)
(*   core/llm_handler.py     RAGLLMHandler.answer_question                 *)
(*   ui/chat_interface.py    ChatInterface                                 *)
(* Texts are sequences of one-character strings; positions are Python's    *)
(* 0-based offsets, so text[pos] of the source is CharAt(text, pos).       *)
(***************************************************************************)
EXTENDS Integers, Sequences, FiniteSets, TLC

VARIABLES
    content,        \* Document.content handed to chunk_document
    chunk_size,     \* TextChunker.chunk_size
    chunk_overlap,  \* TextChunker.chunk_overlap
    text,           \* cleaned_text inside chunk_document / _split_text
    start,          \* loop variable start of _split_text
    chunks,         \* list of chunk strings built by _split_text
    windows,        \* history: the <<start, end>> of every slice taken
    cpc,            \* position in chunk_document: "ready", "loop", "done"
    args,           \* history: the arguments TextChunker was constructed with
    vs_index,       \* VectorStore.index: rows of the FAISS index
    vs_chunks,      \* VectorStore.chunks
    is_built,       \* VectorStore.is_built
    disk_index,     \* index.faiss in the cache directory
    disk_chunks,    \* chunks.txt in the cache directory
    last,           \* history: the last VectorStore operation and its outcome
    saved,          \* history: both artifacts on disk are those one save wrote
    is_initialized, \* RAGPipeline.is_initialized
    ipc,            \* position of the thread running RAGPipeline.initialize
    pending,        \* chunks and embeddings held by the running initialize
    observed,       \* history: the index as one concurrent search read it
    similarity_threshold, \* RAGConfig.similarity_threshold, in hundredths
    documents,      \* RAGPipeline.documents
    ret,            \* history: the last initialize / query / retrieve call and its outcome
    fmt,            \* format_context_for_llm: its arguments and what it returned
    messages,       \* st.session_state.messages
    pipeline_initialized, \* st.session_state.pipeline_initialized
    api_key_configured,   \* ChatInterface.api_key_configured
    turn,           \* history: the last process_user_query call and what it met
    max_history,    \* UIConfig.max_history
    kw              \* app.py retrieve_context: its arguments and what it returned

chunkVars == <<content, chunk_size, chunk_overlap, text, start, chunks, windows, cpc, args>>
indexVars == <<vs_index, vs_chunks, is_built, disk_index, disk_chunks, last, saved>>
concVars  == <<is_initialized, ipc, pending, observed>>
chatVars  == <<messages, pipeline_initialized, api_key_configured, turn, max_history>>
appVars   == <<similarity_threshold, documents, ret, fmt,
               messages, pipeline_initialized, api_key_configured, turn, max_history, kw>>
vars == <<content, chunk_size, chunk_overlap, text, start, chunks, windows, cpc, args,
          vs_index, vs_chunks, is_built, disk_index, disk_chunks, last, saved,
          is_initialized, ipc, pending, observed,
          similarity_threshold, documents, ret, fmt,
          messages, pipeline_initialized, api_key_configured, turn, max_history, kw>>

----------------------------------------------------------------------------
(* Bounds of the model *)

MaxLen == 5         \* longest raw document enumerated character by character
MaxIter == 6        \* most iterations of the sliding-window loop that are followed
MaxArg == 3         \* largest chunk_size / chunk_overlap argument enumerated

(* Program constants *)

DefaultChunkSize == 1000
DefaultChunkOverlap == 200
SentenceLookback == 200
WordLookback == 100

----------------------------------------------------------------------------
(* Characters *)

Alphabet == {"a", "A", ".", " ", "\n"}
UpperChars == {"A"}
Terminators == {".", "!", "?"}

\* str.isspace as str.strip() uses it
IsSpace(c) == c \in {" ", "\t", "\n", "\r"}

\* str.isupper on one character
IsUpper(c) == c \in UpperChars

Min2(a, b) == IF a <= b THEN a ELSE b
Max2(a, b) == IF a >= b THEN a ELSE b

\* text[pos], 0-based
CharAt(s, pos) == s[pos + 1]

\* text[a:b] for 0 <= a, with b clamped to len(text) as Python slicing does
Slice(s, a, b) == SubSeq(s, a + 1, Min2(b, Len(s)))

\* str.strip()
Strip(s) ==
    IF \A i \in 1..Len(s) : IsSpace(s[i]) THEN << >>
    ELSE LET lo == CHOOSE i \in 1..Len(s) : ~IsSpace(s[i]) /\ \A j \in 1..(i - 1) : IsSpace(s[j])
             hi == CHOOSE i \in 1..Len(s) : ~IsSpace(s[i]) /\ \A j \in (i + 1)..Len(s) : IsSpace(s[j])
         IN SubSeq(s, lo, hi)

\* the characters of a sequence of marked characters that are marked keep
Kept(marked) ==
    LET kept == SelectSeq(marked, LAMBDA r : r.keep)
    IN [i \in 1..Len(kept) |-> kept[i].ch]

\* text.replace("\r", "")
RemoveCR(s) == SelectSeq(s, LAMBDA c : c # "\r")

\* re.sub(r"\n{3,}", "\n\n", text): of a run of newlines only the first two stay
CollapseNewlines(s) ==
    Kept([i \in 1..Len(s) |->
            [keep |-> ~(s[i] = "\n" /\ i >= 3 /\ s[i - 1] = "\n" /\ s[i - 2] = "\n"),
             ch |-> s[i]]])

\* re.sub(r"[ \t]+", " ", text): a run of spaces and tabs becomes one space
CollapseSpaces(s) ==
    LET t == Kept([i \in 1..Len(s) |->
                    [keep |-> ~(s[i] \in {" ", "\t"} /\ i >= 2 /\ s[i - 1] \in {" ", "\t"}),
                     ch |-> s[i]]])
    IN [i \in 1..Len(t) |-> IF t[i] = "\t" THEN " " ELSE t[i]]

\* TextCleaner.clean
clean(s) ==
    IF s = << >> THEN << >>
    ELSE Strip(CollapseSpaces(CollapseNewlines(RemoveCR(s))))

----------------------------------------------------------------------------
(* TextChunker *)

\* the record of a TextChunker whose arguments the history does not hold
NoArgs == [recorded |-> FALSE]

\* `arg or default`: None and 0 are both falsy
OrDefault(arg, default) == IF arg = 0 THEN default ELSE arg

\* TextChunker.__init__: the two attributes it sets
TextChunkerInit(argSize, argOverlap) ==
    [chunk_size |-> OrDefault(argSize, DefaultChunkSize),
     chunk_overlap |-> OrDefault(argOverlap, DefaultChunkOverlap)]

\* TextChunker(chunk_size, chunk_overlap) with optional arguments: << >> is
\* None and <<n>> the integer n
TextChunkerNew(size_arg, overlap_arg) ==
    TextChunkerInit(IF size_arg = << >> THEN 0 ELSE size_arg[1],
                    IF overlap_arg = << >> THEN 0 ELSE overlap_arg[1])

\* the tests of Config.validate on the RAG settings: none appends an error
\* (the threshold in hundredths)
RagSettingsValid(size, overlap, threshold) ==
    /\ ~(size <= 0)
    /\ ~(overlap < 0)
    /\ ~(overlap >= size)
    /\ 0 <= threshold /\ threshold <= 100

\* the loop of _find_sentence_boundary, from pos down to search_start + 1
RECURSIVE SentenceScan(_, _, _, _)
SentenceScan(s, pos, search_start, st) ==
    IF pos <= search_start THEN st
    ELSE IF CharAt(s, pos) \in Terminators
         THEN IF pos + 1 >= Len(s) THEN pos + 1
              ELSE IF CharAt(s, pos + 1) = " " /\ pos + 2 < Len(s) /\ IsUpper(CharAt(s, pos + 2))
                   THEN pos + 1
                   ELSE SentenceScan(s, pos - 1, search_start, st)
         ELSE SentenceScan(s, pos - 1, search_start, st)

\* TextChunker._find_sentence_boundary
FindSentenceBoundary(s, st, en) ==
    SentenceScan(s, en - 1, Max2(st, en - SentenceLookback), st)

\* a word scan that cuts one character after the space it found
RECURSIVE WordScanPastSpace(_, _, _, _)
WordScanPastSpace(s, pos, stop, en) ==
    IF pos <= stop THEN en
    ELSE IF CharAt(s, pos) = " " THEN pos + 2
         ELSE WordScanPastSpace(s, pos - 1, stop, en)

\* the loop of _find_word_boundary, from pos down to stop + 1
RECURSIVE WordScan(_, _, _, _)
WordScan(s, pos, stop, en) ==
    IF pos <= stop THEN en
    ELSE IF CharAt(s, pos) = " " THEN pos + 1
         ELSE WordScan(s, pos - 1, stop, en)

\* TextChunker._find_word_boundary
FindWordBoundary(s, en) == WordScan(s, en - 1, Max2(0, en - WordLookback), en)

\* the end of the window that starts at st (lines 196-209 of _split_text)
WindowEnd(s, st, size) ==
    LET en == st + size IN
    IF en < Len(s)
    THEN LET sb == FindSentenceBoundary(s, st, en) IN
         IF sb > st THEN sb
         ELSE LET wb == FindWordBoundary(s, en) IN
              IF wb > st THEN wb ELSE en
    ELSE en

\* a next start that skips the character at end when it cannot step back
NextStartSkipping(en, overlap) ==
    IF en - overlap <= 0 THEN en + 1 ELSE en - overlap

\* a next start that steps back one character more than the overlap
NextStartTooEarly(en, overlap) ==
    IF en - overlap <= 1 THEN en ELSE en - overlap - 1

\* a short-path test that sends a text of exactly chunk_size into the loop
IsShortStrict(s, size) == Len(s) < size

\* the test of line 187 of _split_text
IsShort(s, size) == Len(s) <= size

\* the next start (lines 217-222 of _split_text)
NextStart(en, overlap) ==
    IF en - overlap <= 0 THEN en ELSE en - overlap

----------------------------------------------------------------------------
(* Inputs of the chunker *)

RECURSIVE SeqsUpTo(_, _)
SeqsUpTo(S, n) ==
    IF n = 0 THEN {<< >>}
    ELSE LET shorter == SeqsUpTo(S, n - 1)
         IN shorter \cup {Append(s, c) : s \in {t \in shorter : Len(t) = n - 1}, c \in S}

\* ten sentences of 150 characters, each "Aaa...a. "
ScenarioText ==
    [i \in 1..1500 |-> IF i % 150 = 1 THEN "A"
                       ELSE IF i % 150 = 149 THEN "."
                       ELSE IF i % 150 = 0 THEN " "
                       ELSE "a"]

IsScenario == content = ScenarioText /\ chunk_size = 600 /\ chunk_overlap = 100

----------------------------------------------------------------------------
(* Chunking one document: chunk_document and the loop of _split_text *)

\* chunk_document up to the first test of the while loop: clean, then the
\* short path of _split_text or entry into the loop
ChunkDocument ==
    /\ cpc = "ready"
    /\ LET cleaned == clean(content) IN
       /\ text' = cleaned
       /\ IF IsShort(cleaned, chunk_size)
          THEN /\ chunks' = (IF Strip(cleaned) # << >> THEN <<cleaned>> ELSE << >>)
               /\ cpc' = "done"
          ELSE /\ chunks' = << >>
               /\ cpc' = "loop"
    /\ start' = 0
    /\ windows' = << >>
    /\ UNCHANGED <<args, content, chunk_size, chunk_overlap>>
    /\ UNCHANGED indexVars
    /\ UNCHANGED concVars
    /\ UNCHANGED appVars

\* one iteration of the while loop of _split_text
SplitStep ==
    /\ cpc = "loop"
    /\ start < Len(text)
    /\ Len(windows) < MaxIter
    /\ LET en == WindowEnd(text, start, chunk_size)
           chunk == Strip(Slice(text, start, en))
       IN /\ chunks' = (IF chunk # << >> THEN Append(chunks, chunk) ELSE chunks)
          /\ windows' = Append(windows, <<start, en>>)
          /\ start' = NextStart(en, chunk_overlap)
    /\ UNCHANGED <<args, content, chunk_size, chunk_overlap, text, cpc>>
    /\ UNCHANGED indexVars
    /\ UNCHANGED concVars
    /\ UNCHANGED appVars

\* the while condition fails: _split_text returns chunks
SplitReturn ==
    /\ cpc = "loop"
    /\ start >= Len(text)
    /\ cpc' = "done"
    /\ UNCHANGED <<args, content, chunk_size, chunk_overlap, text, start, chunks, windows>>
    /\ UNCHANGED indexVars
    /\ UNCHANGED concVars
    /\ UNCHANGED appVars

----------------------------------------------------------------------------
(* Embeddings.  A vector is a triple of integers.  The unit sphere of the  *)
(* model is the set of lattice vectors of squared length 2, so the inner   *)
(* product of two unit vectors is -2..2 and a cosine score, written in     *)
(* hundredths, is 50 times that inner product (100 is a score of 1.0).     *)

MaxChunks == 2      \* longest chunk list handed to create_index
MaxK == 2           \* largest top_k argument enumerated (0 stands for None)

TopKResults == 5            \* RAGConfig.top_k_results
SimilarityThreshold == 70   \* RAGConfig.similarity_threshold = 0.7, in hundredths

Dot(u, v) == u[1] * v[1] + u[2] * v[2] + u[3] * v[3]

UnitVectors == {w \in [1..3 -> -1..1] : Dot(w, w) = 2}

\* faiss.normalize_L2 on one row: the unit vector of the same direction.  An
\* embedding is k times a unit vector, so its components are -k, 0 or k.
NormalizeL2(v) ==
    LET k == CHOOSE k \in 1..3 : \A i \in 1..3 : v[i] \in {-k, 0, k}
    IN [i \in 1..3 |-> v[i] \div k]

\* EmbeddingModel.embed_text: the model is a fixed function of the text
EmbedText(t) ==
    CASE t = "c1" -> <<1, 1, 0>>
      [] t = "c2" -> <<2, 0, 2>>
      [] t = "c3" -> <<0, 1, 1>>
      [] t = "q1" -> <<2, 2, 0>>
      [] t = "q2" -> <<0, -1, 1>>

ChunkContents == {"c1", "c2", "c3"}
Queries == {"q1", "q2"}

\* TextChunk: the fields the index and its persistence use
TextChunk(c, i) == [content |-> c, chunk_index |-> i]

\* what get_chunk returns for an index out of range
NoChunk == [content |-> "None", chunk_index |-> -1]

\* the chunk lists handed to create_index: distinct contents, numbered in order
ChunkLists ==
    {[i \in 1..Len(cs) |-> TextChunk(cs[i], i - 1)] :
        cs \in {s \in SeqsUpTo(ChunkContents, MaxChunks) :
                    Len(s) >= 1 /\ \A i, j \in 1..Len(s) : i # j => s[i] # s[j]}}

\* EmbeddingModel.embed_chunks
EmbedChunks(cs) == [i \in 1..Len(cs) |-> EmbedText(cs[i].content)]

\* rows added to the FAISS index by build_index: normalized embeddings
NormalizedRows(embeddings) == [i \in 1..Len(embeddings) |-> NormalizeL2(embeddings[i])]

\* an artifact in the cache directory
Absent == [present |-> FALSE, rows |-> << >>]
File(rows) == [present |-> TRUE, rows |-> rows]

\* the outcome of a call: raised, or the list it returned
Returned(list) == [raised |-> FALSE, results |-> list]
Raised == [raised |-> TRUE, results |-> << >>]

\* IndexFlatIP.search: the k best rows by inner product, as <<row, score>>
\* with 0-based rows; equal scores come lowest row first
FaissSearch(index, qvec, k) ==
    LET n == Len(index)
        score(i) == 50 * Dot(index[i], qvec)
        rank(i) == 1 + Cardinality({j \in 1..n : score(j) > score(i) \/ (score(j) = score(i) /\ j < i)})
        at(r) == CHOOSE i \in 1..n : rank(i) = r
    IN [r \in 1..Min2(k, n) |-> <<at(r) - 1, score(at(r))>>]

\* VectorStore.search: the outcomes it can have.  With k = 0 the FAISS
\* wrapper either returns no rows or fails its k > 0 assertion, by version.
VectorStoreSearch(index, cs, built, qvec, top_k) ==
    IF ~built THEN {Returned(<< >>)}
    ELSE LET k == Min2(top_k, Len(cs)) IN
         IF k = 0 THEN {Returned(<< >>), Raised}
         ELSE {Returned(FaissSearch(index, NormalizeL2(qvec), k))}

\* VectorStore.get_chunk
GetChunk(cs, idx) == IF 0 <= idx /\ idx < Len(cs) THEN cs[idx + 1] ELSE NoChunk

\* lines 264-272 of EmbeddingManager.search: resolve and filter by the
\* configured threshold thr
ChunkResultsAt(cs, results, thr) ==
    LET pairs == [i \in 1..Len(results) |-> <<GetChunk(cs, results[i][1]), results[i][2]>>]
    IN SelectSeq(pairs, LAMBDA p : p[1] # NoChunk /\ p[2] >= thr)

\* the same under the default configuration
ChunkResults(cs, results) == ChunkResultsAt(cs, results, SimilarityThreshold)

\* EmbeddingManager.search from line 258 on, the query embedded as qvec:
\* the outcomes it can have under the configured threshold thr
ManagerSearchVec(index, cs, built, qvec, top_k, thr) ==
    {IF o.raised THEN Raised ELSE Returned(ChunkResultsAt(cs, o.results, thr)) :
        o \in VectorStoreSearch(index, cs, built, qvec, OrDefault(top_k, TopKResults))}

\* EmbeddingManager.search under the default configuration: the outcomes it
\* can have
ManagerSearch(index, cs, built, query, top_k) ==
    IF ~built THEN {Returned(<< >>)}
    ELSE ManagerSearchVec(index, cs, built, EmbedText(query), top_k, SimilarityThreshold)

----------------------------------------------------------------------------
(* The vector store and its manager, one call at a time *)

\* a call as the history keeps it: the operation, whether it succeeded, and
\* for load whether the artifacts were bad when it ran
NoCall == [op |-> "none", ok |-> TRUE, bad |-> FALSE]
Call(op, ok, bad) == [op |-> op, ok |-> ok, bad |-> bad]


\* the artifacts on disk do not form a loadable index: one is missing or
\* their record counts disagree
ArtifactsBad ==
    \/ ~disk_index.present
    \/ ~disk_chunks.present
    \/ Len(disk_index.rows) # Len(disk_chunks.rows)

\* EmbeddingManager.create_index(chunks), with VectorStore.build_index
CreateIndex ==
    \E cs \in ChunkLists \cup {<< >>} :
        /\ IF cs = << >>
           THEN UNCHANGED <<vs_index, vs_chunks, is_built>>
           ELSE /\ vs_chunks' = cs
                /\ vs_index' = NormalizedRows(EmbedChunks(cs))
                /\ is_built' = TRUE
        /\ last' = Call("build", cs # << >>, FALSE)
        /\ UNCHANGED <<disk_index, disk_chunks, saved>>
        /\ UNCHANGED chunkVars
        /\ UNCHANGED concVars
        /\ UNCHANGED appVars

\* EmbeddingManager.save_index, with VectorStore.save: write_index, then
\* chunks.txt; opening chunks.txt for writing can fail
SaveIndex ==
    /\ IF ~is_built
       THEN /\ UNCHANGED <<disk_index, disk_chunks, saved>>
            /\ last' = Call("save", FALSE, FALSE)
       ELSE /\ disk_index' = File(vs_index)
            /\ \/ /\ disk_chunks' = File(vs_chunks)
                  /\ saved' = TRUE
                  /\ last' = Call("save", TRUE, FALSE)
               \/ /\ UNCHANGED disk_chunks
                  /\ saved' = FALSE
                  /\ last' = Call("save", FALSE, FALSE)
    /\ UNCHANGED <<vs_index, vs_chunks, is_built>>
    /\ UNCHANGED chunkVars
    /\ UNCHANGED concVars
    /\ UNCHANGED appVars

\* EmbeddingManager.load_index, with VectorStore.load
LoadIndex ==
    /\ IF ~disk_index.present
       THEN /\ UNCHANGED <<vs_index, is_built>>
            /\ last' = Call("load", FALSE, ArtifactsBad)
       ELSE /\ vs_index' = disk_index.rows
            /\ is_built' = TRUE
            /\ last' = Call("load", TRUE, ArtifactsBad)
    /\ UNCHANGED <<vs_chunks, disk_index, disk_chunks, saved>>
    /\ UNCHANGED chunkVars
    /\ UNCHANGED concVars
    /\ UNCHANGED appVars

\* EmbeddingManager.search(query, top_k)
Search ==
    \E q \in Queries, k \in 0..MaxK :
    \E o \in ManagerSearch(vs_index, vs_chunks, is_built, q, k) :
        /\ last' = Call("search", ~o.raised, FALSE)
        /\ UNCHANGED <<vs_index, vs_chunks, is_built, disk_index, disk_chunks, saved>>
        /\ UNCHANGED chunkVars
        /\ UNCHANGED concVars
        /\ UNCHANGED appVars

\* EmbeddingManager.__init__ in a new process: a fresh VectorStore over the
\* same cache directory
NewManager ==
    /\ vs_index' = << >>
    /\ vs_chunks' = << >>
    /\ is_built' = FALSE
    /\ last' = Call("new", TRUE, FALSE)
    /\ UNCHANGED <<disk_index, disk_chunks, saved>>
    /\ UNCHANGED chunkVars
    /\ UNCHANGED concVars
    /\ UNCHANGED appVars

\* the environment removes one artifact from the cache directory
RemoveArtifact ==
    /\ \/ disk_index.present /\ disk_index' = Absent /\ UNCHANGED disk_chunks
       \/ disk_chunks.present /\ disk_chunks' = Absent /\ UNCHANGED disk_index
    /\ saved' = FALSE
    /\ last' = Call("remove", TRUE, FALSE)
    /\ UNCHANGED <<vs_index, vs_chunks, is_built>>
    /\ UNCHANGED chunkVars
    /\ UNCHANGED concVars
    /\ UNCHANGED appVars

----------------------------------------------------------------------------
(* RAGPipeline.initialize running in one thread while RAGPipeline.query     *)
(* runs in another: initialize is split at each write to the store.        *)

NothingObserved == [chunks |-> << >>, index |-> << >>, taken |-> FALSE]

\* initialize up to line 105 of build_index: chunk, embed, self.chunks = chunks
BuildSetChunks ==
    \E cs \in ChunkLists :
        /\ ipc = "idle"
        /\ pending' = cs
        /\ vs_chunks' = cs
        /\ ipc' = "chunks_set"
        /\ UNCHANGED <<vs_index, is_built, disk_index, disk_chunks, last, saved>>
        /\ UNCHANGED <<is_initialized, observed>>
        /\ UNCHANGED chunkVars
        /\ UNCHANGED appVars

\* line 116 of build_index: self.index = faiss.IndexFlatIP(dim), still empty
BuildNewIndex ==
    /\ ipc = "chunks_set"
    /\ vs_index' = << >>
    /\ ipc' = "index_new"
    /\ UNCHANGED <<vs_chunks, is_built, disk_index, disk_chunks, last, saved>>
    /\ UNCHANGED <<is_initialized, pending, observed>>
    /\ UNCHANGED chunkVars
    /\ UNCHANGED appVars

\* line 117 of build_index: self.index.add(embeddings)
BuildAddVectors ==
    /\ ipc = "index_new"
    /\ vs_index' = NormalizedRows(EmbedChunks(pending))
    /\ ipc' = "index_added"
    /\ UNCHANGED <<vs_chunks, is_built, disk_index, disk_chunks, last, saved>>
    /\ UNCHANGED <<is_initialized, pending, observed>>
    /\ UNCHANGED chunkVars
    /\ UNCHANGED appVars

\* line 119 of build_index and line 287 of initialize: the two flags
BuildMarkBuilt ==
    /\ ipc = "index_added"
    /\ is_built' = TRUE
    /\ is_initialized' = TRUE
    /\ ipc' = "idle"
    /\ pending' = << >>
    /\ UNCHANGED <<vs_index, vs_chunks, disk_index, disk_chunks, last, saved>>
    /\ UNCHANGED observed
    /\ UNCHANGED chunkVars
    /\ UNCHANGED appVars

\* RAGPipeline.query in the other thread, down to EmbeddingManager.search
ConcurrentQuery ==
    \E q \in Queries :
        /\ IF ~is_initialized
           THEN /\ last' = Call("query", TRUE, FALSE)
                /\ observed' = NothingObserved
           ELSE \E o \in ManagerSearch(vs_index, vs_chunks, is_built, q, 0) :
                /\ last' = Call("query", ~o.raised, FALSE)
                /\ observed' = [chunks |-> vs_chunks, index |-> vs_index, taken |-> is_built]
        /\ UNCHANGED <<vs_index, vs_chunks, is_built, disk_index, disk_chunks, saved>>
        /\ UNCHANGED <<is_initialized, ipc, pending>>
        /\ UNCHANGED chunkVars
        /\ UNCHANGED appVars

----------------------------------------------------------------------------
(* Retriever and RAGPipeline, one call at a time *)

MaxDocs == 2        \* longest document list handed to initialize

\* one-character strings standing for U+201C, U+201D, U+2018 and U+2019
CurlyDouble == {"ldquo", "rdquo"}
CurlySingle == {"lsquo", "rsquo"}

\* TextCleaner.normalize_quotes
normalize_quotes(s) ==
    [i \in 1..Len(s) |->
        IF s[i] \in CurlyDouble THEN "\""
        ELSE IF s[i] \in CurlySingle THEN "'"
        ELSE s[i]]

\* TextProcessor.process_query
process_query(query) ==
    IF query = << >> THEN << >>
    ELSE normalize_quotes(clean(query))

\* the raw queries handed to query and retrieve
QueryTexts == {<< >>, <<" ", "\n">>, <<"a">>, <<" ", "A", " ">>, <<"ldquo", "a">>}

\* EmbeddingModel.embed_text on a cleaned query: a fixed function of the text
EmbedQuery(t) ==
    IF \E i \in 1..Len(t) : t[i] = "A" THEN EmbedText("q2") ELSE EmbedText("q1")

\* the min_score arguments handed to retrieve: << >> stands for None
MinScores == {<< >>, <<50>>, <<90>>}

\* the similarity thresholds SIMILARITY_THRESHOLD configures
Thresholds == {50, 90}

\* RetrievalResult(query=query): every other field at its default
EmptyResult(query) ==
    [chunks |-> << >>, query |-> query, scores |-> << >>, total_chunks_found |-> 0]

\* RetrievalResult.has_context
HasContext(r) == Len(r.chunks) > 0

\* a min_score filter that puts each surviving pair in front of the others
MinScoreFilterPrepending(pairs, min_score) ==
    IF min_score = << >> THEN pairs
    ELSE LET kept == SelectSeq(pairs, LAMBDA p : p[2] >= min_score[1])
         IN [i \in 1..Len(kept) |-> kept[Len(kept) + 1 - i]]

\* lines 135-144 of retrieve: the pairs that min_score keeps
MinScoreFilter(pairs, min_score) ==
    IF min_score = << >> THEN pairs
    ELSE SelectSeq(pairs, LAMBDA p : p[2] >= min_score[1])

\* lines 126-153 of retrieve: the result built from what the search returned
RetrievalResultOf(chunk_results, query, min_score) ==
    IF chunk_results = << >> THEN EmptyResult(query)
    ELSE LET kept == MinScoreFilter(chunk_results, min_score)
         IN [chunks |-> [i \in 1..Len(kept) |-> kept[i][1]],
             query |-> query,
             scores |-> [i \in 1..Len(kept) |-> kept[i][2]],
             total_chunks_found |-> Len(chunk_results)]

\* the outcome of a query or retrieve call: whether it raised, the result it
\* returned, and (history) the components it called on the way
Outcome(raised, result, calls) == [raised |-> raised, result |-> result, calls |-> calls]

\* a retrieve that tests the raw query, not the cleaned one, for emptiness
RetrieveTestingRawQuery(index, cs, built, thr, query, top_k, min_score) ==
    IF query = << >>
    THEN {Outcome(FALSE, EmptyResult(query), {"process_query"})}
    ELSE IF ~built
    THEN {Outcome(FALSE, EmptyResult(query), {"process_query", "search"})}
    ELSE {Outcome(TRUE, EmptyResult(query), {"process_query", "search", "embed_text"})}
         \cup {Outcome(o.raised, RetrievalResultOf(o.results, query, min_score),
                       {"process_query", "search", "embed_text", "index_search"}) :
                 o \in ManagerSearchVec(index, cs, built, EmbedQuery(process_query(query)), top_k, thr)}

\* Retriever.retrieve(query, top_k, min_score): the outcomes it can have.
\* EmbeddingManager.search returns at once on an unbuilt store; the embedding
\* model can fail, and then the exception leaves retrieve.
Retrieve(index, cs, built, thr, query, top_k, min_score) ==
    IF process_query(query) = << >>
    THEN {Outcome(FALSE, EmptyResult(query), {"process_query"})}
    ELSE IF ~built
    THEN {Outcome(FALSE, EmptyResult(query), {"process_query", "search"})}
    ELSE {Outcome(TRUE, EmptyResult(query), {"process_query", "search", "embed_text"})}
         \cup {Outcome(o.raised, RetrievalResultOf(o.results, query, min_score),
                       {"process_query", "search", "embed_text", "index_search"}) :
                 o \in ManagerSearchVec(index, cs, built, EmbedQuery(process_query(query)), top_k, thr)}

\* a query that hands every call to the retriever
PipelineQueryUnguarded(initialized, index, cs, built, thr, user_query) ==
    {[o EXCEPT !.calls = @ \cup {"retrieve"}] :
        o \in Retrieve(index, cs, built, thr, user_query, 0, << >>)}

\* RAGPipeline.query(user_query): the outcomes it can have
PipelineQuery(initialized, index, cs, built, thr, user_query) ==
    IF ~initialized THEN {Outcome(FALSE, EmptyResult(user_query), {})}
    ELSE {[o EXCEPT !.calls = @ \cup {"retrieve"}] :
            o \in Retrieve(index, cs, built, thr, user_query, 0, << >>)}

\* a Document, by the text TextCleaner.clean makes of its content; "" is a
\* document whose content cleans to the empty string
Document(c) == [content |-> c]
DocumentContents == {"", "c1", "c2"}
DocumentLists == SeqsUpTo({Document(c) : c \in DocumentContents}, MaxDocs)

\* TextChunker.chunk_document on a document no longer than chunk_size: its
\* cleaned text as one chunk, or no chunk when that text is empty
DocumentChunks(d) == IF d.content = "" THEN << >> ELSE <<TextChunk(d.content, 0)>>

\* TextChunker.chunk_documents
RECURSIVE chunk_documents(_)
chunk_documents(docs) ==
    IF docs = << >> THEN << >>
    ELSE DocumentChunks(Head(docs)) \o chunk_documents(Tail(docs))

\* TextProcessor.process_documents
process_documents(docs) == IF docs = << >> THEN << >> ELSE chunk_documents(docs)

\* a build_index that adds the new chunks and vectors to those it holds
BuildIndexMerging(index, cs, built, new_chunks) ==
    [chunks |-> cs \o new_chunks,
     index |-> index \o NormalizedRows(EmbedChunks(new_chunks)),
     built |-> TRUE]

\* VectorStore.build_index: the store it leaves
BuildIndex(index, cs, built, new_chunks) ==
    IF new_chunks = << >> THEN [chunks |-> cs, index |-> index, built |-> built]
    ELSE [chunks |-> new_chunks,
          index |-> NormalizedRows(EmbedChunks(new_chunks)),
          built |-> TRUE]

\* the history before any call, and after a call of initialize: whether it
\* returned True, whether it raised, whether the store was built before and
\* how many chunks it held
NoRetrieval == [op |-> "none"]
InitializeCall(ok, raised, had_index, prior) ==
    [raised |-> raised, op |-> "initialize", ok |-> ok, had_index |-> had_index, prior |-> prior]

\* RAGPipeline.initialize(documents): what it does to the pipeline and its
\* store.  embed_chunks can fail, and then the exception leaves initialize
\* before build_index is reached.
Initialize(docs) ==
    IF docs = << >>
    THEN /\ ret' = InitializeCall(FALSE, FALSE, is_built, Len(vs_chunks))
         /\ UNCHANGED <<documents, vs_index, vs_chunks, is_built, is_initialized>>
    ELSE /\ documents' = docs
         /\ IF process_documents(docs) = << >>
            THEN /\ ret' = InitializeCall(FALSE, FALSE, is_built, Len(vs_chunks))
                 /\ UNCHANGED <<vs_index, vs_chunks, is_built, is_initialized>>
            ELSE \/ /\ ret' = InitializeCall(FALSE, TRUE, is_built, Len(vs_chunks))
                    /\ UNCHANGED <<vs_index, vs_chunks, is_built, is_initialized>>
                 \/ LET store == BuildIndex(vs_index, vs_chunks, is_built,
                                            process_documents(docs))
                    IN /\ vs_index' = store.index
                       /\ vs_chunks' = store.chunks
                       /\ is_built' = store.built
                       /\ is_initialized' = TRUE
                       /\ ret' = InitializeCall(TRUE, FALSE, is_built, Len(vs_chunks))

\* one call of RAGPipeline.initialize
PipelineInitialize ==
    \E docs \in DocumentLists :
        /\ Initialize(docs)
        /\ UNCHANGED <<disk_index, disk_chunks, last, saved>>
        /\ UNCHANGED <<ipc, pending, observed>>
        /\ UNCHANGED <<kw, similarity_threshold, fmt>>
        /\ UNCHANGED chatVars
        /\ UNCHANGED chunkVars

\* a query that marks the pipeline uninitialized when the retriever raises
QueryInvalidating ==
    \E q \in QueryTexts :
    \E o \in PipelineQuery(is_initialized, vs_index, vs_chunks, is_built, similarity_threshold, q) :
        /\ ret' = [query |-> q, op |-> "query", out |-> o]
        /\ is_initialized' = (is_initialized /\ ~o.raised)
        /\ UNCHANGED <<kw, similarity_threshold, documents, fmt>>
        /\ UNCHANGED chatVars
        /\ UNCHANGED indexVars
        /\ UNCHANGED <<ipc, pending, observed>>
        /\ UNCHANGED chunkVars

\* RAGPipeline.query(user_query) with what it returned
Query ==
    \E q \in QueryTexts :
    \E o \in PipelineQuery(is_initialized, vs_index, vs_chunks, is_built, similarity_threshold, q) :
        /\ ret' = [query |-> q, op |-> "query", out |-> o]
        /\ UNCHANGED <<kw, similarity_threshold, documents, fmt>>
        /\ UNCHANGED chatVars
        /\ UNCHANGED indexVars
        /\ UNCHANGED concVars
        /\ UNCHANGED chunkVars

\* Retriever.retrieve(query, top_k, min_score) with what it returned
RetrieverRetrieve ==
    \E q \in QueryTexts, k \in 0..MaxK, ms \in MinScores :
    \E o \in Retrieve(vs_index, vs_chunks, is_built, similarity_threshold, q, k, ms) :
        /\ ret' = [top_k |-> k, query |-> q, op |-> "retrieve", min_score |-> ms, out |-> o]
        /\ last' = Call("retrieve", ~o.raised, FALSE)
        /\ UNCHANGED <<kw, similarity_threshold, documents, fmt>>
        /\ UNCHANGED chatVars
        /\ UNCHANGED <<vs_index, vs_chunks, is_built, disk_index, disk_chunks, saved>>
        /\ UNCHANGED concVars
        /\ UNCHANGED chunkVars

----------------------------------------------------------------------------
(* RetrievalResult.context_text and Retriever.format_context_for_llm.  The  *)
(* chunks of a result carry the fields the source label reads; every text  *)
(* is a sequence of characters.                                            *)

MaxChars == 36      \* largest max_chars argument enumerated

\* the literals of the two functions
PdfLabel == <<"P", "D", "F", ":", " ">>
PageLabel == <<",", " ", "P", "a", "g", "e", " ">>
WebsiteLabel == <<"W", "e", "b", "s", "i", "t", "e", ":", " ">>
RelevanceLabel == <<"]", " ", "(", "r", "e", "l", "e", "v", "a", "n", "c", "e", ":",
      " ">>
NoContextMessage ==
    <<"N", "o", " ", "r", "e", "l", "e", "v", "a", "n", "t", " ", "i",
      "n", "f", "o", "r", "m", "a", "t", "i", "o", "n", " ", "f", "o",
      "u", "n", "d", " ", "i", "n", " ", "t", "h", "e", " ", "d", "o",
      "c", "u", "m", "e", "n", "t", "s", ".">>
TruncationMarker ==
    <<"\n", "\n", "[", "C", "o", "n", "t", "e", "x", "t", " ", "t", "r",
      "u", "n", "c", "a", "t", "e", "d", ".", ".", ".", "]">>

\* str(n) for 0 <= n
Digits == <<"0", "1", "2", "3", "4", "5", "6", "7", "8", "9">>
RECURSIVE Decimal(_)
Decimal(n) == IF n < 10 THEN <<Digits[n + 1]>> ELSE Decimal(n \div 10) \o <<Digits[(n % 10) + 1]>>

\* f"{score:.2f}" of a score held in hundredths
FormatScore(score) ==
    LET a == IF score < 0 THEN -score ELSE score
    IN (IF score < 0 THEN <<"-">> ELSE << >>)
       \o Decimal(a \div 100) \o <<".">> \o <<Digits[((a \div 10) % 10) + 1], Digits[(a % 10) + 1]>>

\* Path(source).name: what follows the last "/"
PathName(source) ==
    IF \A i \in 1..Len(source) : source[i] # "/" THEN source
    ELSE LET cut == CHOOSE i \in 1..Len(source) :
                        source[i] = "/" /\ \A j \in (i + 1)..Len(source) : source[j] # "/"
         IN SubSeq(source, cut + 1, Len(source))

\* RetrievalResult._format_source_label
format_source_label(chunk) ==
    IF chunk.source_type = "pdf"
    THEN IF chunk.page_numbers # << >>
         THEN PdfLabel \o PathName(chunk.source) \o PageLabel \o Decimal(chunk.page_numbers[1])
         ELSE PdfLabel \o PathName(chunk.source)
    ELSE WebsiteLabel \o chunk.source

\* "\n".join(parts)
RECURSIVE JoinLines(_)
JoinLines(parts) ==
    IF parts = << >> THEN << >>
    ELSE IF Len(parts) = 1 THEN parts[1]
    ELSE parts[1] \o <<"\n">> \o JoinLines(Tail(parts))

\* the three parts context_text appends for pair i of zip(chunks, scores)
ContextParts(r, i) ==
    << <<"[">> \o format_source_label(r.chunks[i]) \o RelevanceLabel
          \o FormatScore(r.scores[i]) \o <<")">>,
       r.chunks[i].content,
       << >> >>

RECURSIVE AllContextParts(_, _)
AllContextParts(r, i) ==
    IF i > Min2(Len(r.chunks), Len(r.scores)) THEN << >>
    ELSE ContextParts(r, i) \o AllContextParts(r, i + 1)

\* RetrievalResult.context_text
context_text(r) ==
    IF r.chunks = << >> THEN << >>
    ELSE JoinLines(AllContextParts(r, 1))

\* a format that also truncates a context of exactly max_chars characters
FormatTruncatingAtLimit(r, max_chars) ==
    IF ~HasContext(r) THEN NoContextMessage
    ELSE IF Len(context_text(r)) >= max_chars
         THEN Slice(context_text(r), 0, max_chars) \o TruncationMarker
         ELSE context_text(r)

\* Retriever.format_context_for_llm(result, max_chars), 0 <= max_chars
format_context_for_llm(r, max_chars) ==
    IF ~HasContext(r) THEN NoContextMessage
    ELSE IF Len(context_text(r)) > max_chars
         THEN Slice(context_text(r), 0, max_chars) \o TruncationMarker
         ELSE context_text(r)

\* the chunks of the results handed to the function: a PDF page, a PDF
\* without page numbers, and a web page
SourcedChunks ==
    {[content |-> <<"x">>, source |-> <<"d", "/", "m", ".", "p", "d", "f">>,
      source_type |-> "pdf", page_numbers |-> <<3>>],
     [content |-> <<"y", " ", "z">>, source |-> <<"m", ".", "p", "d", "f">>,
      source_type |-> "pdf", page_numbers |-> << >>],
     [content |-> <<"w">>, source |-> <<"u">>,
      source_type |-> "web", page_numbers |-> << >>]}

\* the results handed to the function: the empty result, and results of one
\* to MaxChunks chunks whose scores are 1.0 down to some pair and 0.5 after it
FormatResults ==
    {EmptyResult(<<"a">>)}
    \cup {[chunks |-> cs,
           query |-> <<"a">>,
           scores |-> [i \in 1..Len(cs) |-> IF i <= m THEN 100 ELSE 50],
           total_chunks_found |-> Len(cs)] :
            cs \in (SeqsUpTo(SourcedChunks, MaxChunks) \ {<< >>}), m \in 0..1}

NotFormatted == [called |-> FALSE]

\* one call of format_context_for_llm on the arguments drawn at the start
FormatContext ==
    /\ fmt # NotFormatted
    /\ ~fmt.called
    /\ fmt' = [fmt EXCEPT !.called = TRUE,
                          !.out = format_context_for_llm(fmt.result, fmt.max_chars)]
    /\ UNCHANGED <<kw, similarity_threshold, documents, ret>>
    /\ UNCHANGED chatVars
    /\ UNCHANGED indexVars
    /\ UNCHANGED concVars
    /\ UNCHANGED chunkVars

----------------------------------------------------------------------------
(* ChatInterface over st.session_state, one method call at a time.  The     *)
(* content of a message is the sequence of the strings it is made of.      *)

MaxHistory == 3     \* largest max_history that MAX_HISTORY configures here

NotReadyMessage ==
    "The knowledge base is not ready yet. Please wait for initialization or refresh the page."
ApiKeyMessage == "Groq API key is not configured. Please add GROQ_API_KEY to your secrets."
ErrorPrefix == "Sorry, I encountered an error: "

\* what the model answers when told to say it has no information, and an
\* answer it composes from the context
NoInformationAnswer == "I don't have enough information about this in the policy documents."
ContextAnswer == "(an answer composed from the retrieved context)"

\* str(e) of the exceptions the embedding model and the Groq client raise
EmbeddingError == "embedding failed"
GroqError == "Groq API error"

ChatMessage(role, text_parts) == [content |-> text_parts, role |-> role]

\* list[-n:]: the last n elements for n > 0, the whole list for n = 0, and
\* the list less its first -n elements for n < 0
LastSlice(list, n) ==
    IF n = 0 THEN list
    ELSE IF n > 0 THEN SubSeq(list, Max2(Len(list) - n, 0) + 1, Len(list))
    ELSE SubSeq(list, Min2(-n, Len(list)) + 1, Len(list))

\* ChatInterface.add_message: append, then slice when the history is longer
\* than max_history
add_message(msgs, role, text_parts) ==
    LET all == Append(msgs, ChatMessage(role, text_parts))
    IN IF Len(all) > max_history
       THEN LastSlice(all, max_history)
       ELSE all

\* RAGLLMHandler.answer_question: the outcomes it can have.  Without context
\* the prompt asks for the no-information answer; with context the model
\* answers from it or says the context does not hold the answer.
answer_question(retrieval_result) ==
    {[content |-> GroqError, raised |-> TRUE]}
    \cup {[content |-> c, raised |-> FALSE] :
            c \in IF HasContext(retrieval_result)
                  THEN {ContextAnswer, NoInformationAnswer}
                  ELSE {NoInformationAnswer}}

\* the queries typed into the chat
ChatQueries == {<<"a">>, <<" ", "A", " ">>}

\* what DocumentLoader.load_all_sources returns: nothing, a page that cleans
\* to nothing, or the configured sources
LoadedSources == {<< >>, <<Document("")>>, <<Document("c1"), Document("c2")>>}

\* the history before any process_user_query, and after one: what the call
\* met (the session flag, the pipeline's own flag, the API key, an exception
\* in the try block, context in the retrieval result)
NoTurn == [called |-> FALSE]
Turn(session_ready, pipeline_ready, key_ok, raised, has_context) ==
    [raised |-> raised, called |-> TRUE, session_ready |-> session_ready,
     pipeline_ready |-> pipeline_ready, key_ok |-> key_ok, has_context |-> has_context]

\* ChatInterface(): a new interface, with a new RAGPipeline, over the
\* session state that is there
NewChatInterface ==
    /\ is_initialized' = FALSE
    /\ documents' = << >>
    /\ vs_index' = << >>
    /\ vs_chunks' = << >>
    /\ is_built' = FALSE
    /\ ret' = NoRetrieval
    /\ UNCHANGED <<disk_index, disk_chunks, last, saved>>
    /\ UNCHANGED <<ipc, pending, observed>>
    /\ UNCHANGED <<kw, similarity_threshold, fmt>>
    /\ UNCHANGED chatVars
    /\ UNCHANGED chunkVars

\* ChatInterface.initialize_pipeline while the session flag is False (it
\* returns at once when the flag is True); initialization_error is not kept
InitializePipeline ==
    /\ ~pipeline_initialized
    /\ \E docs \in LoadedSources :
        IF docs = << >>
        THEN /\ UNCHANGED <<documents, vs_index, vs_chunks, is_built, is_initialized, ret>>
             /\ UNCHANGED pipeline_initialized
        ELSE /\ Initialize(docs)
             /\ pipeline_initialized' = ret'.ok
    /\ UNCHANGED <<messages, api_key_configured, turn, max_history>>
    /\ UNCHANGED <<disk_index, disk_chunks, last, saved>>
    /\ UNCHANGED <<ipc, pending, observed>>
    /\ UNCHANGED <<kw, similarity_threshold, fmt>>
    /\ UNCHANGED chunkVars

\* ChatInterface.process_user_query(query), followed while the history holds
\* at most MaxHistory messages
ProcessUserQuery ==
    \E q \in ChatQueries :
        LET asked == add_message(messages, "user", q)
            met(raised, has_context) ==
                Turn(pipeline_initialized, is_initialized, api_key_configured, raised, has_context)
        IN /\ Len(messages) <= MaxHistory
           /\ IF ~pipeline_initialized
              THEN /\ messages' = add_message(asked, "error", <<NotReadyMessage>>)
                   /\ turn' = met(FALSE, FALSE)
              ELSE IF ~api_key_configured
              THEN /\ messages' = add_message(asked, "error", <<ApiKeyMessage>>)
                   /\ turn' = met(FALSE, FALSE)
              ELSE \E o \in PipelineQuery(is_initialized, vs_index, vs_chunks, is_built,
                                          similarity_threshold, q) :
                    IF o.raised
                    THEN /\ messages' = add_message(asked, "error", <<ErrorPrefix, EmbeddingError>>)
                         /\ turn' = met(TRUE, FALSE)
                    ELSE \E a \in answer_question(o.result) :
                           IF a.raised
                           THEN /\ messages' = add_message(asked, "error", <<ErrorPrefix, a.content>>)
                                /\ turn' = met(TRUE, HasContext(o.result))
                           ELSE /\ messages' = add_message(asked, "assistant", <<a.content>>)
                                /\ turn' = met(FALSE, HasContext(o.result))
           /\ UNCHANGED <<pipeline_initialized, api_key_configured, max_history>>
           /\ UNCHANGED <<kw, similarity_threshold, documents, ret, fmt>>
           /\ UNCHANGED indexVars
           /\ UNCHANGED concVars
           /\ UNCHANGED chunkVars

\* ChatInterface.clear_chat
ClearChat ==
    /\ messages' = << >>
    /\ turn' = NoTurn
    /\ UNCHANGED <<pipeline_initialized, api_key_configured, max_history>>
    /\ UNCHANGED <<kw, similarity_threshold, documents, ret, fmt>>
    /\ UNCHANGED indexVars
    /\ UNCHANGED concVars
    /\ UNCHANGED chunkVars

\* ChatInterface.add_message(role, content) called on its own, followed while
\* the history holds at most MaxHistory messages
AddMessage ==
    \E role \in {"user", "assistant", "error"}, q \in ChatQueries :
        /\ Len(messages) <= MaxHistory
        /\ messages' = add_message(messages, role, q)
        /\ turn' = NoTurn
        /\ UNCHANGED <<pipeline_initialized, api_key_configured, max_history>>
        /\ UNCHANGED <<kw, similarity_threshold, documents, ret, fmt>>
        /\ UNCHANGED indexVars
        /\ UNCHANGED concVars
        /\ UNCHANGED chunkVars

----------------------------------------------------------------------------
(* app.py: retrieve_context over the module's pdf_chunks.  Texts are        *)
(* sequences of characters; a scored entry is <<score, chunk, row>>, the    *)
(* row being the chunk's place in pdf_chunks (history).                    *)

MaxPdfChunks == 3   \* longest pdf_chunks list enumerated

\* str.lower() on the letters of the model
Lower(s) ==
    [i \in 1..Len(s) |-> IF s[i] = "X" THEN "x" ELSE IF s[i] = "Y" THEN "y" ELSE s[i]]

\* str.split(): the words of s, cur being the word read so far
RECURSIVE SplitWords(_, _)
SplitWords(s, cur) ==
    IF s = << >> THEN (IF cur = << >> THEN << >> ELSE <<cur>>)
    ELSE IF IsSpace(Head(s))
         THEN (IF cur = << >> THEN << >> ELSE <<cur>>) \o SplitWords(Tail(s), << >>)
         ELSE SplitWords(Tail(s), Append(cur, Head(s)))

\* set(text.lower().split())
WordSet(s) ==
    LET words == SplitWords(Lower(s), << >>)
    IN {words[i] : i \in 1..Len(words)}

\* len(q_words & ch_words)
KeywordScore(query, ch) == Cardinality(WordSet(query) \cap WordSet(ch))

\* the list scored after the loop over pdf_chunks
Scored(query, pdf_chunks) ==
    SelectSeq([i \in 1..Len(pdf_chunks) |-> <<KeywordScore(query, pdf_chunks[i]), pdf_chunks[i], i>>],
              LAMBDA p : p[1] > 0)

\* an insertion that puts an entry in front of the entries of equal score
InsertBeforeEquals(sorted, p) ==
    LET ahead == SelectSeq(sorted, LAMBDA e : e[1] > p[1])
        behind == SelectSeq(sorted, LAMBDA e : e[1] <= p[1])
    IN ahead \o <<p>> \o behind

\* an entry put into a list sorted high score first, behind the entries of
\* equal score
InsertByScore(sorted, p) ==
    LET ahead == SelectSeq(sorted, LAMBDA e : e[1] >= p[1])
        behind == SelectSeq(sorted, LAMBDA e : e[1] < p[1])
    IN ahead \o <<p>> \o behind

\* scored.sort(reverse=True, key=lambda x: x[0]): the sort is stable, and
\* with reverse=True entries of equal key still keep their order
RECURSIVE SortByScore(_)
SortByScore(list) ==
    IF list = << >> THEN << >>
    ELSE InsertByScore(SortByScore(SubSeq(list, 1, Len(list) - 1)), list[Len(list)])

\* scored[:top_k] after the sort, for top_k >= 0
TopScored(query, pdf_chunks, top_k) ==
    LET sorted == SortByScore(Scored(query, pdf_chunks))
    IN SubSeq(sorted, 1, Min2(top_k, Len(sorted)))

\* "\n\n".join(parts)
RECURSIVE JoinParagraphs(_)
JoinParagraphs(parts) ==
    IF parts = << >> THEN << >>
    ELSE IF Len(parts) = 1 THEN parts[1]
    ELSE parts[1] \o <<"\n", "\n">> \o JoinParagraphs(Tail(parts))

\* retrieve_context(query, top_k)
retrieve_context(query, pdf_chunks, top_k) ==
    IF pdf_chunks = << >> THEN << >>
    ELSE IF Scored(query, pdf_chunks) = << >> THEN << >>
    ELSE LET top == TopScored(query, pdf_chunks, top_k)
         IN JoinParagraphs([i \in 1..Len(top) |-> top[i][2]])

\* the chunks load_chunks can leave in pdf_chunks: "x", "X y", "y", "xy",
\* "y  x" and "z"
PdfChunkTexts ==
    {<<"x">>, <<"X", " ", "y">>, <<"y">>, <<"x", "y">>, <<"y", " ", " ", "x">>, <<"z">>}

\* the questions asked: "", "x", "X y", "y xy" and " Y  x xy"
KeywordQueries ==
    {<< >>, <<"x">>, <<"X", " ", "y">>, <<"y", " ", "x", "y">>,
     <<" ", "Y", " ", " ", "x", " ", "x", "y">>}

NoKeywordCall == [called |-> FALSE]

\* one call of retrieve_context on the arguments drawn at the start
RetrieveContext ==
    /\ kw # NoKeywordCall
    /\ ~kw.called
    /\ kw' = [kw EXCEPT
                !.called = TRUE,
                !.out = retrieve_context(kw.query, kw.pdf_chunks, kw.top_k),
                !.rows = LET top == TopScored(kw.query, kw.pdf_chunks, kw.top_k)
                         IN [i \in 1..Len(top) |-> top[i][3]]]
    /\ UNCHANGED <<similarity_threshold, documents, ret, fmt>>
    /\ UNCHANGED chatVars
    /\ UNCHANGED indexVars
    /\ UNCHANGED concVars
    /\ UNCHANGED chunkVars

----------------------------------------------------------------------------
(* Specifications *)

ChunkerIdle ==
    /\ content = << >> /\ chunk_size = DefaultChunkSize /\ chunk_overlap = DefaultChunkOverlap
    /\ text = << >> /\ start = 0 /\ chunks = << >> /\ windows = << >> /\ cpc = "ready"
    /\ args = NoArgs

StoreNew ==
    /\ vs_index = << >> /\ vs_chunks = << >> /\ is_built = FALSE
    /\ disk_index = Absent /\ disk_chunks = Absent
    /\ last = NoCall /\ saved = FALSE

PipelineNew ==
    /\ is_initialized = FALSE /\ ipc = "idle" /\ pending = << >> /\ observed = NothingObserved
    /\ documents = << >> /\ ret = NoRetrieval /\ fmt = NotFormatted
    /\ kw = NoKeywordCall

\* the default configuration
DefaultConfig == similarity_threshold = SimilarityThreshold

\* a session no ChatInterface has run in, without an API key
SessionNew ==
    /\ messages = << >> /\ pipeline_initialized = FALSE /\ turn = NoTurn
    /\ api_key_configured = FALSE
    /\ max_history = MaxHistory

\* a TextChunker constructed with some arguments, handed one document
ChunkInit ==
    /\ \/ \E argSize \in 0..MaxArg, argOverlap \in 0..MaxArg :
            /\ argSize = 0 => argOverlap = 0
            /\ chunk_size = TextChunkerInit(argSize, argOverlap).chunk_size
            /\ chunk_overlap = TextChunkerInit(argSize, argOverlap).chunk_overlap
            /\ content \in SeqsUpTo(Alphabet, MaxLen)
       \/ /\ chunk_size = TextChunkerInit(600, 100).chunk_size
          /\ chunk_overlap = TextChunkerInit(600, 100).chunk_overlap
          /\ content = ScenarioText
    /\ text = << >> /\ start = 0 /\ chunks = << >> /\ windows = << >> /\ cpc = "ready"
    /\ args = NoArgs
    /\ StoreNew
    /\ PipelineNew
    /\ DefaultConfig
    /\ SessionNew

ChunkNext == ChunkDocument \/ SplitStep \/ SplitReturn

ChunkSpec == ChunkInit /\ [][ChunkNext]_vars

IndexInit == ChunkerIdle /\ StoreNew /\ PipelineNew /\ DefaultConfig /\ SessionNew

IndexNext == CreateIndex \/ SaveIndex \/ LoadIndex \/ Search \/ NewManager \/ RemoveArtifact

IndexSpec == IndexInit /\ [][IndexNext]_vars

ConcNext == BuildSetChunks \/ BuildNewIndex \/ BuildAddVectors \/ BuildMarkBuilt \/ ConcurrentQuery

ConcSpec == IndexInit /\ [][ConcNext]_vars

\* a new RAGPipeline under the default configuration
PipelineInit == ChunkerIdle /\ StoreNew /\ PipelineNew /\ DefaultConfig /\ SessionNew

PipelineNext == PipelineInitialize \/ Query

PipelineSpec == PipelineInit /\ [][PipelineNext]_vars

\* a Retriever under a configured similarity threshold, its manager new or
\* after create_index on a chunk list
RetrieveInit ==
    /\ ChunkerIdle /\ PipelineNew /\ SessionNew
    /\ similarity_threshold \in Thresholds
    /\ \E cs \in ChunkLists \cup {<< >>} :
        LET store == BuildIndex(<< >>, << >>, FALSE, cs)
        IN vs_index = store.index /\ vs_chunks = store.chunks /\ is_built = store.built
    /\ disk_index = Absent /\ disk_chunks = Absent
    /\ last = NoCall /\ saved = FALSE

RetrieveNext == RetrieverRetrieve

RetrieveSpec == RetrieveInit /\ [][RetrieveNext]_vars

\* format_context_for_llm about to be called on a result and a max_chars
FormatInit ==
    /\ ChunkerIdle /\ StoreNew /\ DefaultConfig /\ SessionNew
    /\ is_initialized = FALSE /\ ipc = "idle" /\ pending = << >> /\ observed = NothingObserved
    /\ documents = << >> /\ ret = NoRetrieval /\ kw = NoKeywordCall
    /\ \E r \in FormatResults, m \in 0..MaxChars :
            fmt = [result |-> r, out |-> << >>, max_chars |-> m, called |-> FALSE]

FormatNext == FormatContext

FormatSpec == FormatInit /\ [][FormatNext]_vars

\* the first ChatInterface of a session, with or without an API key
ChatInit ==
    /\ ChunkerIdle /\ StoreNew /\ PipelineNew /\ DefaultConfig
    /\ messages = << >> /\ pipeline_initialized = FALSE /\ turn = NoTurn
    /\ api_key_configured \in BOOLEAN
    /\ max_history = MaxHistory

ChatNext == NewChatInterface \/ InitializePipeline \/ ProcessUserQuery \/ ClearChat

ChatSpec == ChatInit /\ [][ChatNext]_vars

\* ten sentences of 50 characters, each "Aaa...a. "
LongText ==
    [i \in 1..500 |-> IF i % 50 = 1 THEN "A"
                      ELSE IF i % 50 = 49 THEN "."
                      ELSE IF i % 50 = 0 THEN " "
                      ELSE "a"]

\* the arguments TextChunker is constructed with: << >> is None
SizeArgs == {<< >>, <<300>>} \cup {<<n>> : n \in 0..MaxArg}
OverlapArgs == {<< >>} \cup {<<n>> : n \in 0..MaxArg}

\* a TextChunker constructed with optional arguments, which the history
\* keeps, handed one document
ChunkerInit ==
    /\ \E size_arg \in SizeArgs, overlap_arg \in OverlapArgs :
            /\ args = [chunk_size |-> size_arg, chunk_overlap |-> overlap_arg]
            /\ chunk_size = TextChunkerNew(size_arg, overlap_arg).chunk_size
            /\ chunk_overlap = TextChunkerNew(size_arg, overlap_arg).chunk_overlap
    /\ content \in SeqsUpTo({"a", " "}, MaxLen) \cup {LongText}
    /\ text = << >> /\ start = 0 /\ chunks = << >> /\ windows = << >> /\ cpc = "ready"
    /\ StoreNew
    /\ PipelineNew
    /\ DefaultConfig
    /\ SessionNew

ChunkerSpec == ChunkerInit /\ [][ChunkNext]_vars

MaxCleanLen == 6    \* longest text handed to clean through chunk_document

CleanAlphabet == {"a", " ", "\t", "\n", "\r"}

\* a TextChunker of the default configuration handed one document
CleanInit ==
    /\ content \in SeqsUpTo(CleanAlphabet, MaxCleanLen)
    /\ chunk_size = DefaultChunkSize /\ chunk_overlap = DefaultChunkOverlap
    /\ text = << >> /\ start = 0 /\ chunks = << >> /\ windows = << >> /\ cpc = "ready"
    /\ args = NoArgs
    /\ StoreNew
    /\ PipelineNew
    /\ DefaultConfig
    /\ SessionNew

CleanNext == ChunkDocument

CleanSpec == CleanInit /\ [][CleanNext]_vars

\* a ChatInterface under some configured max_history, its pipeline not
\* initialized
HistoryInit ==
    /\ ChunkerIdle /\ StoreNew /\ PipelineNew /\ DefaultConfig
    /\ messages = << >> /\ pipeline_initialized = FALSE /\ turn = NoTurn
    /\ api_key_configured = FALSE
    /\ max_history \in 0..MaxHistory

HistoryNext == AddMessage \/ ProcessUserQuery \/ ClearChat

HistorySpec == HistoryInit /\ [][HistoryNext]_vars

\* app.py loaded, retrieve_context about to be called on a question and a
\* top_k
KeywordInit ==
    /\ ChunkerIdle /\ StoreNew /\ DefaultConfig /\ SessionNew
    /\ is_initialized = FALSE /\ ipc = "idle" /\ pending = << >> /\ observed = NothingObserved
    /\ documents = << >> /\ ret = NoRetrieval /\ fmt = NotFormatted
    /\ \E q \in KeywordQueries, cs \in SeqsUpTo(PdfChunkTexts, MaxPdfChunks), k \in 0..MaxK :
            kw = [rows |-> << >>, top_k |-> k, query |-> q, out |-> << >>,
                  called |-> FALSE, pdf_chunks |-> cs]

KeywordNext == RetrieveContext

KeywordSpec == KeywordInit /\ [][KeywordNext]_vars

----------------------------------------------------------------------------
(* Properties of the chunker, under ChunkSpec *)

\* the text took the sliding-window path
Windowed == cpc \in {"loop", "done"} /\ ~IsShort(text, chunk_size)

\* window i ended before start + chunk_size: its end was snapped
Snapped(i) == windows[i][2] < windows[i][1] + chunk_size

\* the positions of text inside window i
WindowPositions(i) ==
    Max2(windows[i][1], 0)..(Min2(windows[i][2], Len(text)) - 1)

\* the stripped slices of all windows, empty ones dropped
StrippedSlices ==
    SelectSeq([i \in 1..Len(windows) |-> Strip(Slice(text, windows[i][1], windows[i][2]))],
              LAMBDA c : c # << >>)

\* C1: when the cleaned text is longer than chunk_size, consecutive windows
\* leave no gap, the chunks are exactly the windows' slices less their
\* leading and trailing whitespace, and once chunking has returned every
\* character position of the cleaned text lies inside some window.
C1_NoCharacterLoss ==
    Windowed =>
        /\ \A i \in 1..(Len(windows) - 1) : windows[i + 1][1] <= windows[i][2]
        /\ chunks = StrippedSlices
        /\ cpc = "done" =>
              \A p \in 0..(Len(text) - 1) : \E i \in 1..Len(windows) : p \in WindowPositions(i)

C1_Witness ==
    /\ Windowed /\ cpc = "done"
    /\ Len(windows) >= 2
    /\ \E i \in 1..Len(windows) : Snapped(i)
    /\ Len(chunks) < Len(windows)

\* C2: a text no longer than chunk_size yields exactly one chunk equal to
\* clean(text) when that is non-empty, and no chunk when it is empty.
C2_ShortTextOneChunk ==
    (cpc = "done" /\ Len(content) <= chunk_size) =>
        chunks = (IF clean(content) = << >> THEN << >> ELSE <<clean(content)>>)

C2_Witness ==
    /\ cpc = "done" /\ Len(content) = chunk_size
    /\ Len(chunks) = 1 /\ chunks[1] = content

\* C3: the next window never starts earlier than the previous window's end
\* minus chunk_overlap, so two consecutive windows share at most
\* chunk_overlap characters (no snap tolerance is needed).
C3_OverlapBounded ==
    \A i \in 1..(Len(windows) - 1) :
        /\ windows[i + 1][1] >= windows[i][2] - chunk_overlap
        /\ Cardinality(WindowPositions(i) \cap WindowPositions(i + 1)) <= chunk_overlap

C3_Witness ==
    /\ cpc = "done" /\ chunk_overlap < chunk_size
    /\ \E i \in 1..(Len(windows) - 1) :
          /\ Snapped(i)
          /\ chunk_overlap > 0
          /\ Cardinality(WindowPositions(i) \cap WindowPositions(i + 1)) = chunk_overlap

\* C4: every chunk is at most chunk_size characters long, because a window's
\* end is never after start + chunk_size.
C4_ChunkSizeBounded ==
    /\ \A i \in 1..Len(chunks) : Len(chunks[i]) <= chunk_size
    /\ \A i \in 1..Len(windows) : windows[i][2] <= windows[i][1] + chunk_size

C4_Witness ==
    /\ Windowed /\ cpc = "done"
    /\ \E i \in 1..Len(windows) : Snapped(i)
    /\ \E i \in 1..Len(chunks) : Len(chunks[i]) = chunk_size

\* C5: with chunk_size 600, chunk_overlap 100 and 1500 characters with a
\* sentence terminator every 150 characters, chunking returns exactly 3
\* chunks, each at most 700 characters, adjacent windows sharing about 100.
C5_ScenarioThreeChunks ==
    (IsScenario /\ cpc = "done") =>
        /\ Len(chunks) = 3
        /\ \A i \in 1..Len(chunks) : Len(chunks[i]) <= 700
        /\ \A i \in 1..(Len(windows) - 1) :
              windows[i][2] - windows[i + 1][1] \in 50..150

----------------------------------------------------------------------------
(* Properties of the vector store, under IndexSpec *)

\* C6: whenever the index is marked built, the number of stored chunks
\* equals the number of stored vectors.
C6_ChunkCountEqualsVectorCount ==
    is_built => Len(vs_chunks) = Len(vs_index)

\* C7: after load of the artifacts one save wrote from a built index (the
\* vectors and chunks that save wrote are the rows of the two artifacts),
\* every search returns the pairs the saved index returned, and every
\* returned chunk_index resolves to the same chunk.
C7_SaveLoadRoundTrip ==
    (last.op = "load" /\ last.ok /\ saved) =>
        \A q \in Queries, k \in 1..MaxK :
            LET now == VectorStoreSearch(vs_index, vs_chunks, is_built, EmbedText(q), k)
                then == VectorStoreSearch(disk_index.rows, disk_chunks.rows, TRUE, EmbedText(q), k)
            IN /\ now = then
               /\ \A o \in then : \A i \in 1..Len(o.results) :
                     GetChunk(vs_chunks, o.results[i][1]) = GetChunk(disk_chunks.rows, o.results[i][1])

\* C8: load with an artifact missing or with disagreeing record counts
\* fails and leaves the index not built.
C8_LoadFailsOnBadArtifacts ==
    (last.op = "load" /\ last.bad) => (~last.ok /\ ~is_built)

\* what EmbeddingManager.search gives on a store that was never built
UnbuiltSearch(q, k) == ManagerSearch(<< >>, << >>, FALSE, q, k)

\* C9: the outcome of a search on an index that is not built is never the
\* value a built index returns when nothing matches.
C9_UnbuiltDiffersFromNoMatch ==
    is_built =>
        \A q \in Queries, k \in 0..MaxK :
            \A o \in ManagerSearch(vs_index, vs_chunks, is_built, q, k) :
                (~o.raised /\ o.results = << >>) => o \notin UnbuiltSearch(q, k)

----------------------------------------------------------------------------
(* Property of index replacement, under ConcSpec *)

\* C10: a search running while initialize replaces the index reads a
\* complete index: the vectors it reads are those of the chunk list it reads.
C10_SearchSeesWholeIndex ==
    observed.taken =>
        observed.index = NormalizedRows(EmbedChunks(observed.chunks))

----------------------------------------------------------------------------
(* Properties of RAGPipeline, under PipelineSpec *)

\* C11: after an initialize that returned True on a pipeline whose store was
\* already built, the store holds exactly the chunks of the new documents and
\* one normalized vector per chunk, in order: nothing of the prior index is
\* left and nothing is merged
C11_ReinitializeReplacesIndex ==
    (ret.op = "initialize" /\ ret.ok /\ ret.had_index) =>
        /\ vs_chunks = process_documents(documents)
        /\ vs_index = NormalizedRows(EmbedChunks(process_documents(documents)))
        /\ is_built
        /\ is_initialized

\* a two-chunk index was replaced by the one chunk of two new documents
C11_Witness ==
    /\ ret.op = "initialize" /\ ret.ok /\ ret.had_index
    /\ ret.prior = 2
    /\ Len(documents) = 2
    /\ Len(vs_chunks) = 1

\* C12: a query on a pipeline on which no initialize has succeeded does not
\* raise, returns the empty result for its query, and calls neither the
\* retriever nor the embedding model nor the index
C12_QueryBeforeInitialize ==
    (ret.op = "query" /\ ~is_initialized) =>
        /\ ~ret.out.raised
        /\ ret.out.result = EmptyResult(ret.query)
        /\ ~HasContext(ret.out.result)
        /\ ret.out.calls = {}

\* a non-empty query on a pipeline whose only initialize failed
C12_Witness ==
    /\ ret.op = "query" /\ ~is_initialized
    /\ documents # << >>
    /\ process_query(ret.query) # << >>

\* C13: the result of a query that searched an initialized pipeline and
\* matched nothing differs, in some field, from the result the same query
\* gets from a pipeline with nothing indexed
C13_NothingIndexedDiffersFromNoMatch ==
    (/\ ret.op = "query" /\ is_initialized
     /\ ~ret.out.raised
     /\ "index_search" \in ret.out.calls
     /\ ~HasContext(ret.out.result)) =>
        \A u \in PipelineQuery(FALSE, << >>, << >>, FALSE, similarity_threshold, ret.query) :
            u.result # ret.out.result

\* C19: a step that is a query call, whatever its outcome, leaves the chunk
\* list, the vector index, the built flag, the initialized flag and the
\* recorded documents as they were, and the outcome it had is one the same
\* query has on the state it leaves
C19_QueryLeavesIndexUnchanged ==
    [][ret'.op = "query" =>
        /\ UNCHANGED <<vs_chunks, vs_index, is_built, is_initialized, documents>>
        /\ ret'.out \in PipelineQuery(is_initialized', vs_index', vs_chunks', is_built',
                                      similarity_threshold', ret'.query)]_vars

\* a query on an initialized pipeline failed with an exception
C19_Witness ==
    /\ ret.op = "query" /\ ret.out.raised
    /\ is_initialized /\ is_built

----------------------------------------------------------------------------
(* Properties of Retriever.retrieve, under RetrieveSpec *)

\* the last call was a retrieve: ret records it and the store is as it left it
Retrieved == ret.op = "retrieve" /\ last.op = "retrieve"

\* the candidates the index search of the recorded retrieve returned, each
\* with its chunk, before any filtering by score
Candidates ==
    LET o == CHOOSE o \in VectorStoreSearch(vs_index, vs_chunks, is_built,
                                            EmbedQuery(process_query(ret.query)),
                                            OrDefault(ret.top_k, TopKResults)) : ~o.raised
    IN [i \in 1..Len(o.results) |-> <<GetChunk(vs_chunks, o.results[i][1]), o.results[i][2]>>]

\* the recorded call is a retrieve that reached the index search and returned
Searched == Retrieved /\ ~ret.out.raised /\ "index_search" \in ret.out.calls

\* C14: total_chunks_found of a retrieve that searched is the number of
\* candidates the index search returned, before any filtering by score
C14_TotalCountsRawCandidates ==
    Searched => ret.out.result.total_chunks_found = Len(Candidates)

\* C15: a retrieve that searched returns exactly the candidates scoring at
\* least min_score when min_score is supplied, and at least the configured
\* threshold when it is not
C15_MinScoreReplacesThreshold ==
    Searched =>
        LET limit == IF ret.min_score = << >> THEN similarity_threshold ELSE ret.min_score[1]
            expected == SelectSeq(Candidates, LAMBDA p : p[2] >= limit)
        IN /\ ret.out.result.chunks = [i \in 1..Len(expected) |-> expected[i][1]]
           /\ ret.out.result.scores = [i \in 1..Len(expected) |-> expected[i][2]]

\* the row of the index a chunk of the store sits at
RowOf(chunk) == CHOOSE i \in 1..Len(vs_chunks) : vs_chunks[i] = chunk

C17_EmptyQueryShortCircuits ==
    (Retrieved /\ process_query(ret.query) = << >>) =>
        /\ ~ret.out.raised
        /\ ret.out.result = EmptyResult(ret.query)
        /\ ~HasContext(ret.out.result)
        /\ ret.out.result.total_chunks_found = 0
        /\ ret.out.calls \cap {"search", "embed_text", "index_search"} = {}

\* a whitespace-only query was handed to a retriever whose index is built
C17_Witness ==
    /\ Retrieved /\ ret.query # << >> /\ process_query(ret.query) = << >>
    /\ is_built

----------------------------------------------------------------------------
(* Properties of format_context_for_llm, under FormatSpec *)

\* text ends with the truncation marker
EndsWithMarker(t) ==
    /\ Len(t) >= Len(TruncationMarker)
    /\ SubSeq(t, Len(t) - Len(TruncationMarker) + 1, Len(t)) = TruncationMarker

\* what the function returned is the context when that is no longer than
\* max_chars, else its first max_chars characters and then the marker, and
\* it ends with the marker exactly when characters were cut
FormattedAsContext ==
    LET context == context_text(fmt.result)
    IN /\ Len(context) <= fmt.max_chars => fmt.out = context
       /\ Len(context) > fmt.max_chars =>
            /\ Len(fmt.out) = fmt.max_chars + Len(TruncationMarker)
            /\ SubSeq(fmt.out, 1, fmt.max_chars) = SubSeq(context, 1, fmt.max_chars)
       /\ EndsWithMarker(fmt.out) <=> Len(context) > fmt.max_chars

\* C18 as stated: whatever the result, format_context returns its context
\* unchanged when that is at most max_chars long and otherwise its first
\* max_chars characters followed by the marker
C18_FormatContextAnyResult == fmt.called => FormattedAsContext

\* C18: for a result that has context, format_context returns the context
\* unchanged when it is at most max_chars long and otherwise its first
\* max_chars characters followed by the marker, the marker being there exactly
\* when characters were cut; for a result without context it returns the
\* fixed no-information sentence
C18_FormatContextWithContext ==
    fmt.called =>
        IF HasContext(fmt.result) THEN FormattedAsContext
        ELSE fmt.out = NoContextMessage

\* a context of exactly max_chars characters was formatted
C18_Witness ==
    /\ fmt.called /\ HasContext(fmt.result)
    /\ Len(context_text(fmt.result)) = fmt.max_chars

----------------------------------------------------------------------------
(* Properties of ChatInterface, under ChatSpec *)

\* the call met a system error: the session or the pipeline was not ready,
\* the API key was missing, or retrieval or answering raised
SystemError(t) == ~t.session_ready \/ ~t.pipeline_ready \/ ~t.key_ok \/ t.raised

\* C20: the message process_user_query appends last has role "error" when
\* the call met a system error, and role "assistant" when it met none and
\* retrieval found no context; a system error is never told with the
\* no-information answer
C20_ErrorsAreNotAnswers ==
    turn.called =>
        LET reply == messages[Len(messages)]
        IN /\ SystemError(turn) =>
                (reply.role = "error" /\ reply.content # <<NoInformationAnswer>>)
           /\ (~SystemError(turn) /\ ~turn.has_context) => reply.role = "assistant"

----------------------------------------------------------------------------
(* Properties of the construction of a TextChunker, under ChunkerSpec *)

\* C21: a TextChunker that has been handed a document holds a chunk_size and
\* a chunk_overlap, and runs under a similarity threshold, that Config.validate
\* accepts: one whose values it rejects is never constructed and then used
C21_InvalidConfigRejected ==
    cpc # "ready" => RagSettingsValid(chunk_size, chunk_overlap, similarity_threshold)

\* C26: a TextChunker constructed with an explicit chunk_overlap of 0 chunks
\* with chunk_overlap 0: each of its windows starts where the one before ended
C26_ExplicitZeroOverlap ==
    (args.chunk_overlap = <<0>> /\ cpc # "ready") =>
        /\ chunk_overlap = 0
        /\ \A i \in 1..(Len(windows) - 1) : windows[i + 1][1] = windows[i][2]

----------------------------------------------------------------------------
(* Properties of the sliding-window loop, under ChunkSpec *)

\* C22: under a configuration with 0 <= chunk_overlap < chunk_size the start
\* of each window is strictly greater than the start of the window before
C22_WindowStartsAdvance ==
    (0 <= chunk_overlap /\ chunk_overlap < chunk_size) =>
        \A i \in 1..(Len(windows) - 1) : windows[i + 1][1] > windows[i][1]

\* window i ended at the sentence boundary _find_sentence_boundary returned
SentenceSnapped(i) ==
    /\ windows[i][1] + chunk_size < Len(text)
    /\ FindSentenceBoundary(text, windows[i][1], windows[i][1] + chunk_size) > windows[i][1]

\* C24: a window whose end was snapped to a sentence boundary does not end
\* just past a terminator whose preceding character is uppercase
C24_AbbreviationNotSnapped ==
    \A i \in 1..Len(windows) :
        (SentenceSnapped(i) /\ windows[i][2] >= 2) =>
            ~IsUpper(CharAt(text, windows[i][2] - 2))

----------------------------------------------------------------------------
(* Property of build_index, under ConcSpec *)

\* C23: in every state where the built flag is true the store holds a chunk
\* list and exactly the normalized vectors of that list, and while the flag
\* is false every search returns the empty list
C23_BuiltMeansStored ==
    /\ is_built => (vs_chunks # << >> /\ vs_index = NormalizedRows(EmbedChunks(vs_chunks)))
    /\ ~is_built =>
          \A q \in Queries :
              VectorStoreSearch(vs_index, vs_chunks, is_built, EmbedText(q), TopKResults)
                  = {Returned(<< >>)}

----------------------------------------------------------------------------
(* Property of TextCleaner.clean, under CleanSpec *)

\* text.split("\n"): the lines of s, cur being the line read so far
RECURSIVE TextLines(_, _)
TextLines(s, cur) ==
    IF s = << >> THEN <<cur>>
    ELSE IF Head(s) = "\n" THEN <<cur>> \o TextLines(Tail(s), << >>)
    ELSE TextLines(Tail(s), Append(cur, Head(s)))

\* a line that is empty or holds whitespace only
BlankLine(line) == \A i \in 1..Len(line) : IsSpace(line[i])

\* C25: the cleaned text holds no carriage return, no two consecutive
\* space or tab characters, no whitespace at its start or end, and no two
\* consecutive blank lines
C25_CleanOutput ==
    cpc = "done" =>
        /\ \A i \in 1..Len(text) : text[i] # "\r"
        /\ \A i \in 1..(Len(text) - 1) :
              ~(text[i] \in {" ", "\t"} /\ text[i + 1] \in {" ", "\t"})
        /\ text # << >> => (~IsSpace(text[1]) /\ ~IsSpace(text[Len(text)]))
        /\ LET lines == TextLines(text, << >>)
           IN \A i \in 1..(Len(lines) - 1) : ~(BlankLine(lines[i]) /\ BlankLine(lines[i + 1]))

----------------------------------------------------------------------------
(* Property of the keyword retrieval of app.py, under KeywordSpec *)

\* the number of distinct query terms the chunk at a row of pdf_chunks shares
SharedTerms(row) == KeywordScore(kw.query, kw.pdf_chunks[row])

\* C27: what retrieve_context returns is the chunks of the rows it picked,
\* joined; every picked chunk shares a query term; a picked chunk sharing
\* more terms stands before one sharing fewer, and picked chunks sharing
\* equally many stand in their order in pdf_chunks; at most top_k chunks
\* are picked; and a chunk sharing a term is left out only when top_k chunks
\* that rank before it were picked
C27_KeywordRanking ==
    kw.called =>
        LET n == Len(kw.rows)
            picked == {kw.rows[i] : i \in 1..n}
        IN /\ kw.out = JoinParagraphs([i \in 1..n |-> kw.pdf_chunks[kw.rows[i]]])
           /\ \A r \in picked : r \in 1..Len(kw.pdf_chunks) /\ SharedTerms(r) > 0
           /\ \A i, j \in 1..n :
                i < j => \/ SharedTerms(kw.rows[i]) > SharedTerms(kw.rows[j])
                         \/ /\ SharedTerms(kw.rows[i]) = SharedTerms(kw.rows[j])
                            /\ kw.rows[i] < kw.rows[j]
           /\ n <= kw.top_k
           /\ \A u \in (1..Len(kw.pdf_chunks)) \ picked :
                SharedTerms(u) > 0 =>
                    /\ n = kw.top_k
                    /\ \A r \in picked :
                          \/ SharedTerms(r) > SharedTerms(u)
                          \/ SharedTerms(r) = SharedTerms(u) /\ r < u

\* of three chunks sharing 1, 1 and 2 terms with "X y", top_k = 2 picked the
\* third and then the first
C27_Witness ==
    /\ kw.called /\ kw.top_k = 2
    /\ kw.query = <<"X", " ", "y">>
    /\ Len(kw.pdf_chunks) = 3
    /\ kw.rows = <<3, 1>>
    /\ SharedTerms(1) = SharedTerms(2)

----------------------------------------------------------------------------
(* Property of a failed initialize, under PipelineSpec *)

\* C28: a step that is an initialize call returning False leaves the
\* recorded documents, the chunk list, the vector index and both flags as
\* they were
C28_FailedInitializeLeavesState ==
    [][(ret'.op = "initialize" /\ ~ret'.ok /\ ~ret'.raised) =>
        UNCHANGED <<documents, vs_chunks, vs_index, is_built, is_initialized>>]_vars

----------------------------------------------------------------------------
(* Property of the chat history, under HistorySpec *)

\* the n most recent elements of a list, for n >= 0
MostRecent(list, n) == SubSeq(list, Max2(Len(list) - n, 0) + 1, Len(list))

\* C29: every step that changes the history either empties it or leaves
\* the max_history most recent of the messages it held and the one or two
\* messages the step added, in the order they were added; so the history
\* never holds more than max_history messages
C29_HistoryKeepsMostRecent ==
    [][messages' # messages =>
        \/ messages' = << >>
        \/ \E k \in 1..2 :
              /\ k <= Len(messages')
              /\ messages' = MostRecent(messages \o SubSeq(messages', Len(messages') - k + 1,
                                                           Len(messages')),
                                        max_history)]_vars

----------------------------------------------------------------------------
(* Property of reruns, under ChatSpec *)

\* C30: a process_user_query that found the session flag true queried a
\* RAGPipeline that was itself initialized
C30_SessionFlagMeansPipelineReady ==
    turn.called => (turn.session_ready => turn.pipeline_ready)

====
